---------------------------- MODULE Spec2Model ----------------------------
(***************************************************************************)
(* State-machine model of src/components/screenpipe/                       *)
(* ScreenpipeVerificationPanel.tsx: the ScreenpipeVerificationPanel        *)
(* component (connection lifecycle, periodic refresh, verify flow) and the *)
(* AchievementCard component (its own verify button).                      *)
(*                                                                         *)
(* One action per handler / promise continuation.  React state is the      *)
(* component's variables; a state setter called after the component has    *)
(* unmounted has no effect (the state no longer exists), while plain       *)
(* callbacks captured by a closure (onVerificationComplete) still run.     *)
(* A handler's closure captures the props and state of the render in which *)
(* the handler was created: an in-flight verify keeps the achievement      *)
(* object and wallet address it was started with.                          *)
(*                                                                         *)
(* The hook useAchievementVerification is imported, not defined, by the    *)
(* source: its `verifying` flag is modelled as one flag per hook instance  *)
(* (the panel's and each card's), true while that instance's               *)
(* verifyAchievement call is pending.  Its progress counter and error      *)
(* field are only rendered by the source and are not modelled.             *)
(*                                                                         *)
(* The BlockchainSelector component of the same file (lines 387-607) is    *)
(* modelled next to them: its init effect, the chainChanged subscription,  *)
(* and the switch-network and add-network buttons, each handler split at   *)
(* its awaits of window.ethereum.request.  SpecSelector is its             *)
(* specification.                                                          *)
(*                                                                         *)
(* The specifications share the variables and the actions.  SpecConnection *)
(* is the connection lifecycle (every fetch start, every settle, effect    *)
(* re-run, unmount) and SpecConnectionFair adds that a set interval keeps  *)
(* firing; SpecVerify is the verify flow of the panel and the cards under  *)
(* changing props, with the mount-time fetch settling either way;          *)
(* SpecSelector is the network selector.  The verify flow writes none of   *)
(* the connection variables, the connection handlers write none of the     *)
(* verify flow's, and the selector shares no state with the panel.         *)
(***************************************************************************)
EXTENDS Naturals, Integers, Sequences, FiniteSets, TLC

VARIABLES
    mounted,                 \* the panel instance is mounted
    connectionStatus,        \* useState, line 37
    selectedAchievement,     \* useState, line 36: a snapshot of the clicked achievement
    lastVerificationResult,  \* useState, line 38
    achievements,            \* prop: the registry's current list, id -> fields
    walletAddress,           \* prop
    verifying,               \* the panel's hook instance: a verify is pending
    panelAttempt,            \* closure of the pending verifySelectedAchievement call
    cardVerifying,           \* each card's hook instance: id -> a verify is pending
    cardAttempt,             \* closure of each card's pending handleVerify call
    fetches,                 \* fetchScreenpipeData() promises in flight
    fetchCount,              \* fetchScreenpipeData() calls made so far
    anyFetchResolved,        \* history: some fetch has settled
    timers,                  \* active setInterval handles
    interval,                \* the handle held by the current effect's cleanup
    verifyCount,             \* verifyAchievement() calls made so far
    propChanges,             \* changes of the props made by the parent so far
    notifications,           \* the calls made to the registry's callback, in order
    latest,                  \* history: the most recently started verify attempt
    lastEvent,               \* history: the handler or continuation that ran last
    selectorMounted,         \* the BlockchainSelector instance is mounted
    hasProvider,             \* window.ethereum is injected
    currentNetwork,          \* useState, line 392
    isLoading,               \* useState, line 393
    error,                   \* useState, line 394
    ops,                     \* selector handlers suspended at an await
    opCount,                 \* button handlers and effect re-runs of the selector so far
    effectRun,               \* the number of the selector's current effect run
    listeners,               \* effect runs whose handleChainChanged is registered
    netEvent                 \* history: the selector handler that ran last

panelVars == << mounted, connectionStatus, selectedAchievement, lastVerificationResult,
           achievements, walletAddress, verifying, panelAttempt, cardVerifying,
           cardAttempt, fetches, fetchCount, anyFetchResolved, timers, interval,
           verifyCount, propChanges, notifications, latest, lastEvent >>

selectorVars == << selectorMounted, hasProvider, currentNetwork, isLoading, error,
                   ops, opCount, effectRun, listeners, netEvent >>

vars == << panelVars, selectorVars >>

-----------------------------------------------------------------------------
(* Bounds of the model *)

MaxFetches == 3
MaxVerifies == 2
MaxPropChanges == 1
MaxNetOps == 2

-----------------------------------------------------------------------------
(* Values *)

Ids == {"a1", "a2"}
NoId == "none"

\* walletAddress: string | null.  Null is the null prop; "" is the empty string.
NullWallet == "<null>"
Wallets == {NullWallet, "", "0xABC"}

\* JavaScript truthiness of walletAddress, as used by `!walletAddress`
Truthy(w) == w # NullWallet /\ w # ""

\* e.message values of a thrown error: empty, or a proper message
ErrorMessages == {"", "Screenpipe timed out"}

NoMessage == "-"
SuccessMessage == "Achievement verified successfully!"
NotVerifiedMessage ==
    "Could not verify achievement. Make sure the content is visible on your screen."
UnexpectedErrorMessage == "Verification failed due to an unexpected error"

NullAchievement ==
    [present |-> FALSE, id |-> NoId, completed |-> FALSE, verificationStatus |-> "pending"]

NullResult ==
    [present |-> FALSE, success |-> FALSE, message |-> NoMessage, achievementId |-> NoId]

NoAttempt == [present |-> FALSE, id |-> NoId, wallet |-> NullWallet, seq |-> 0]

NoLatest == [seq |-> 0, id |-> NoId, origin |-> "-", supersedes |-> NoId, outcome |-> "-"]

Event(kind, id, origin, outcome, message, from, seen) ==
    [kind |-> kind, id |-> id, origin |-> origin, outcome |-> outcome,
     message |-> message, from |-> from, seen |-> seen, live |-> mounted]

\* the achievement object a handler receives: the registry entry plus its id
Snapshot(id) ==
    [present |-> TRUE, id |-> id, completed |-> achievements[id].completed,
     verificationStatus |-> achievements[id].verificationStatus]

\* line 64: achievements.filter(a => a.completed && a.verificationStatus === "pending")
pendingAchievements ==
    {id \in Ids : achievements[id].completed
                  /\ achievements[id].verificationStatus = "pending"}

\* line 68
verifiedAchievements ==
    {id \in Ids : achievements[id].verificationStatus = "verified"}


-----------------------------------------------------------------------------
(* Connection lifecycle: lines 45-61 and 206-214 *)

\* a catch branch that writes the status of the try branch
FetchOutcomeStatusAlwaysConnected(ok) == "connected"

\* a settle that writes the status only for the first fetch to settle
FetchOutcomeStatusFirstWins(ok) ==
    IF anyFetchResolved THEN connectionStatus
    ELSE IF ok THEN "connected" ELSE "disconnected"

\* a catch branch that leaves the status as it was
FetchOutcomeStatusKeepsOnFailure(ok) ==
    IF ok THEN "connected" ELSE connectionStatus

\* lines 47-53 and 209-213: the status written when a fetch settles
FetchOutcomeStatus(ok) == IF ok THEN "connected" ELSE "disconnected"

\* a Refresh button that does not write 'connecting' before fetching
StatusOnFetchStartUntouched(origin) == connectionStatus

\* the status right after a fetch is started: the Refresh button (line 208)
\* writes 'connecting' first; initializeScreenpipe (lines 46-48) writes nothing
StatusOnFetchStart(origin) ==
    IF origin = "manual" THEN "connecting" ELSE connectionStatus

\* a cleanup that does not clear the interval
ClearIntervalSkipped(h) == timers

\* line 60: clearInterval(interval)
ClearInterval(h) == timers \ {h}

\* a setState call of the panel: dropped once the panel has unmounted
SetState(current, value) == IF mounted THEN value ELSE current

\* fetchScreenpipeData() is called: one more promise in flight.  `from` and
\* `seen` are history: the status the fetch was started from, and whether the
\* status has been 'connecting' at some moment since it was started.
StartFetch(origin) ==
    LET status == SetState(connectionStatus, StatusOnFetchStart(origin))
        marked == IF status = "connecting"
                  THEN {[f EXCEPT !.seen = TRUE] : f \in fetches}
                  ELSE fetches
    IN  /\ fetchCount < MaxFetches
        /\ connectionStatus' = status
        /\ fetchCount' = fetchCount + 1
        /\ fetches' = marked \cup {[id |-> fetchCount + 1, origin |-> origin,
                                    from |-> connectionStatus,
                                    seen |-> (status = "connecting")]}
        /\ lastEvent' = Event("fetchStart", NoId, origin, "-", NoMessage,
                              connectionStatus, status = "connecting")

\* a one-shot timer (setTimeout): the handle is spent by its first firing
TimerTickOnce ==
    /\ \E h \in timers : StartFetch("timer") /\ timers' = timers \ {h}
    /\ UNCHANGED << mounted, selectedAchievement, lastVerificationResult, achievements,
                    walletAddress, verifying, panelAttempt, cardVerifying, cardAttempt,
                    anyFetchResolved, interval, verifyCount, propChanges, notifications,
                    latest >>

\* line 59: the interval fires and calls initializeScreenpipe
TimerTick ==
    /\ \E h \in timers : StartFetch("timer")
    /\ UNCHANGED << mounted, selectedAchievement, lastVerificationResult, achievements,
                    walletAddress, verifying, panelAttempt, cardVerifying, cardAttempt,
                    anyFetchResolved, timers, interval, verifyCount, propChanges, notifications,
                    latest >>

\* lines 206-217: the Refresh button, disabled while verifying
ManualRefresh ==
    /\ mounted
    /\ ~verifying
    /\ StartFetch("manual")
    /\ UNCHANGED << mounted, selectedAchievement, lastVerificationResult, achievements,
                    walletAddress, verifying, panelAttempt, cardVerifying, cardAttempt,
                    anyFetchResolved, timers, interval, verifyCount, propChanges, notifications,
                    latest >>

\* lines 45-61: fetchScreenpipeData changed identity, so React runs the
\* previous run's cleanup and then the effect again
EffectRerun ==
    /\ mounted
    /\ StartFetch("effect")
    /\ timers' = ClearInterval(interval) \cup {fetchCount + 1}
    /\ interval' = fetchCount + 1
    /\ UNCHANGED << mounted, selectedAchievement, lastVerificationResult, achievements,
                    walletAddress, verifying, panelAttempt, cardVerifying, cardAttempt,
                    anyFetchResolved, verifyCount, propChanges, notifications, latest >>

\* lines 48-53 and 209-213: a fetch settles (ok: resolved, ~ok: rejected)
FetchResolve(f, ok) ==
    /\ f \in fetches
    /\ fetches' = fetches \ {f}
    /\ anyFetchResolved' = TRUE
    /\ connectionStatus' = SetState(connectionStatus, FetchOutcomeStatus(ok))
    /\ lastEvent' = Event("fetchResolved", NoId, f.origin, IF ok THEN "ok" ELSE "fail",
                          NoMessage, f.from, f.seen)
    /\ UNCHANGED << mounted, selectedAchievement, lastVerificationResult, achievements,
                    walletAddress, verifying, panelAttempt, cardVerifying, cardAttempt,
                    fetchCount, timers, interval, verifyCount, propChanges, notifications, latest >>

\* line 60: the panel unmounts and React runs the effect's cleanup
Unmount ==
    /\ mounted
    /\ mounted' = FALSE
    /\ timers' = ClearInterval(interval)
    /\ lastEvent' = Event("unmount", NoId, "-", "-", NoMessage, "-", FALSE)
    /\ UNCHANGED << connectionStatus, selectedAchievement, lastVerificationResult,
                    achievements, walletAddress, verifying, panelAttempt, cardVerifying,
                    cardAttempt, fetches, fetchCount, anyFetchResolved, interval,
                    verifyCount, propChanges, notifications, latest >>

-----------------------------------------------------------------------------
(* The registry: the owner of `achievements`, reached through the callback *)

\* the registry's handler of onVerificationComplete: a verified achievement
\* becomes 'verified' and is stamped; a failure changes nothing
RegistryApply(id, verified) ==
    IF verified
    THEN [achievements EXCEPT ![id].verificationStatus = "verified",
                              ![id].timestamp = TRUE]
    ELSE achievements

\* one call of the callback prop: recorded, and applied by the registry
onVerificationComplete(id, verified) ==
    /\ notifications' = Append(notifications, << id, verified >>)
    /\ achievements' = RegistryApply(id, verified)

\* the parent re-renders the components with other props
PropsEvent == Event("propsChange", NoId, "-", "-", NoMessage, "-", FALSE)

\* the producer of `completed` sets or clears the flag of one achievement
RegistryUpdate(id) ==
    /\ propChanges < MaxPropChanges
    /\ propChanges' = propChanges + 1
    /\ achievements' = [achievements EXCEPT ![id].completed = ~achievements[id].completed]
    /\ lastEvent' = PropsEvent
    /\ UNCHANGED << mounted, connectionStatus, selectedAchievement,
                    lastVerificationResult, walletAddress, verifying, panelAttempt,
                    cardVerifying, cardAttempt, fetches, fetchCount, anyFetchResolved,
                    timers, interval, verifyCount, notifications, latest >>

\* the parent passes another walletAddress prop
WalletChange(w) ==
    /\ propChanges < MaxPropChanges
    /\ propChanges' = propChanges + 1
    /\ w # walletAddress
    /\ walletAddress' = w
    /\ lastEvent' = PropsEvent
    /\ UNCHANGED << mounted, connectionStatus, selectedAchievement,
                    lastVerificationResult, achievements, verifying, panelAttempt,
                    cardVerifying, cardAttempt, fetches, fetchCount, anyFetchResolved,
                    timers, interval, verifyCount, notifications, latest >>

-----------------------------------------------------------------------------
(* The panel's verify flow: lines 73-119, 162-196, 258-270, 294-304 *)

\* some verifyAchievement call is pending, in the panel or in a card
VerifyInFlight == panelAttempt.present \/ \E id \in Ids : cardAttempt[id].present

\* the hook's `verifying` flag: true exactly while a verifyAchievement call of
\* that hook instance is pending
VerifyingWhile(pending) == pending

\* history: the achievement of the panel's attempt that is still pending when
\* another attempt is started
Superseded == IF panelAttempt.present THEN panelAttempt.id ELSE NoId

\* a guard that does not look at the wallet address
VerifyGuardIgnoresWallet == selectedAchievement.present

\* line 74: the guard of verifySelectedAchievement
VerifyGuardPasses == selectedAchievement.present /\ Truthy(walletAddress)

\* a catch branch that drops e.message and always records the fallback text
ResultOfDropsErrorMessage(id, outcome, message) ==
    CASE outcome = "true" ->
           [present |-> TRUE, success |-> TRUE, message |-> SuccessMessage,
            achievementId |-> id]
      [] outcome = "false" ->
           [present |-> TRUE, success |-> FALSE, message |-> NotVerifiedMessage,
            achievementId |-> id]
      [] OTHER ->
           [present |-> TRUE, success |-> FALSE, message |-> UnexpectedErrorMessage,
            achievementId |-> NoId]

\* lines 83-87, 99-103, 108-111: the result recorded for an outcome
ResultOf(id, outcome, message) ==
    CASE outcome = "true" ->
           [present |-> TRUE, success |-> TRUE, message |-> SuccessMessage,
            achievementId |-> id]
      [] outcome = "false" ->
           [present |-> TRUE, success |-> FALSE, message |-> NotVerifiedMessage,
            achievementId |-> id]
      [] OTHER ->
           [present |-> TRUE, success |-> FALSE,
            message |-> IF message # "" THEN message ELSE UnexpectedErrorMessage,
            achievementId |-> NoId]

\* the callback moved out of the `if (verified)` branch: it is also reached
\* when verifyAchievement resolved false
PanelNotifiesOnFalse(outcome) == outcome # "throw"

\* the callback never called
PanelNeverNotifies(outcome) == FALSE

\* lines 82 and 89-91: the panel calls onVerificationComplete(id, true), and
\* only in the branch taken when verifyAchievement resolved true
PanelNotifies(outcome) == outcome = "true"

\* lines 266-269: a card of the pending list is clicked
SelectAchievement(id) ==
    /\ mounted
    /\ id \in pendingAchievements
    /\ selectedAchievement' = Snapshot(id)
    /\ lastVerificationResult' = NullResult
    /\ lastEvent' = Event("select", id, "panel", "-", NoMessage, "-", FALSE)
    /\ UNCHANGED << mounted, connectionStatus, achievements, walletAddress, verifying,
                    panelAttempt, cardVerifying, cardAttempt, fetches, fetchCount,
                    anyFetchResolved, timers, interval, verifyCount, propChanges, notifications,
                    latest >>

\* lines 73-80: verifySelectedAchievement up to its await; `button` names the
\* control that called it
verifySelectedAchievement(button) ==
    IF ~VerifyGuardPasses
    THEN /\ lastEvent' = Event("verifyGuardReturn", selectedAchievement.id, "panel", "-",
                               NoMessage, button, FALSE)
         /\ UNCHANGED << mounted, connectionStatus, selectedAchievement,
                         lastVerificationResult, achievements, walletAddress, verifying,
                         panelAttempt, cardVerifying, cardAttempt, fetches, fetchCount,
                         anyFetchResolved, timers, interval, verifyCount, propChanges, notifications,
                         latest >>
    ELSE /\ verifyCount < MaxVerifies
         /\ lastVerificationResult' = NullResult
         /\ verifying' = VerifyingWhile(TRUE)
         /\ verifyCount' = verifyCount + 1
         /\ panelAttempt' = [present |-> TRUE, id |-> selectedAchievement.id,
                             wallet |-> walletAddress, seq |-> verifyCount + 1]
         /\ latest' = [seq |-> verifyCount + 1, id |-> selectedAchievement.id,
                       origin |-> "panel", supersedes |-> Superseded,
                       outcome |-> "pending"]
         /\ lastEvent' = Event("verifyStart", selectedAchievement.id, "panel", "-",
                               NoMessage, button, FALSE)
         /\ UNCHANGED << mounted, connectionStatus, selectedAchievement, achievements,
                         walletAddress, cardVerifying, cardAttempt, fetches, fetchCount,
                         anyFetchResolved, timers, interval, propChanges,
                         notifications >>

\* lines 294-304: the Verify Achievement button, rendered for a selection
\* while connected, disabled without a wallet address or while verifying
VerifyButtonClick ==
    /\ mounted
    /\ selectedAchievement.present
    /\ connectionStatus = "connected"
    /\ ~(~Truthy(walletAddress) \/ verifying)
    /\ verifySelectedAchievement("verifyButton")

\* lines 162-191: the Try Again button, rendered with a failed result for a
\* selection, disabled while verifying
TryAgainClick ==
    /\ mounted
    /\ lastVerificationResult.present
    /\ selectedAchievement.present
    /\ ~lastVerificationResult.success
    /\ ~verifying
    /\ verifySelectedAchievement("tryAgain")

\* lines 80-118: the awaited verifyAchievement settles: "true", "false", or
\* "throw" with e.message = message
PanelVerifyResolve(outcome, message) ==
    /\ panelAttempt.present
    /\ verifying' = VerifyingWhile(FALSE)
    /\ panelAttempt' = NoAttempt
    /\ lastVerificationResult' =
           SetState(lastVerificationResult, ResultOf(panelAttempt.id, outcome, message))
    /\ IF PanelNotifies(outcome)
       THEN onVerificationComplete(panelAttempt.id, TRUE)
       ELSE UNCHANGED << notifications, achievements >>
    /\ latest' = IF latest.seq = panelAttempt.seq
                 THEN [latest EXCEPT !.outcome = outcome] ELSE latest
    /\ lastEvent' = Event("verifyResolved", panelAttempt.id, "panel", outcome, message,
                          "-", FALSE)
    /\ UNCHANGED << mounted, connectionStatus, selectedAchievement, walletAddress,
                    cardVerifying, cardAttempt, fetches, fetchCount, anyFetchResolved,
                    timers, interval, verifyCount, propChanges >>

-----------------------------------------------------------------------------
(* AchievementCard: lines 656-661 and 700-705 *)

\* lines 700-705: the card's button is rendered for a completed, pending
\* achievement with a wallet address, disabled while the card's hook verifies;
\* lines 656-657: handleVerify up to its await
CardVerifyClick(id) ==
    /\ achievements[id].completed
    /\ achievements[id].verificationStatus = "pending"
    /\ Truthy(walletAddress)
    /\ ~cardVerifying[id]
    /\ verifyCount < MaxVerifies
    /\ cardVerifying' = [cardVerifying EXCEPT ![id] = VerifyingWhile(TRUE)]
    /\ verifyCount' = verifyCount + 1
    /\ cardAttempt' = [cardAttempt EXCEPT ![id] =
                          [present |-> TRUE, id |-> id, wallet |-> walletAddress,
                           seq |-> verifyCount + 1]]
    /\ latest' = [seq |-> verifyCount + 1, id |-> id, origin |-> "card",
                  supersedes |-> Superseded, outcome |-> "pending"]
    /\ lastEvent' = Event("verifyStart", id, "card", "-", NoMessage, "cardButton", FALSE)
    /\ UNCHANGED << mounted, connectionStatus, selectedAchievement,
                    lastVerificationResult, achievements, walletAddress, verifying,
                    panelAttempt, fetches, fetchCount, anyFetchResolved, timers,
                    interval, propChanges, notifications >>

\* lines 657-660: the card's awaited verifyAchievement settles; a rejection
\* leaves handleVerify without reaching the callback
CardVerifyResolve(id, outcome, message) ==
    /\ cardAttempt[id].present
    /\ cardVerifying' = [cardVerifying EXCEPT ![id] = VerifyingWhile(FALSE)]
    /\ cardAttempt' = [cardAttempt EXCEPT ![id] = NoAttempt]
    /\ IF outcome # "throw"
       THEN onVerificationComplete(id, outcome = "true")
       ELSE UNCHANGED << notifications, achievements >>
    /\ latest' = IF latest.seq = cardAttempt[id].seq
                 THEN [latest EXCEPT !.outcome = outcome] ELSE latest
    /\ lastEvent' = Event("verifyResolved", id, "card", outcome, message, "-", FALSE)
    /\ UNCHANGED << mounted, connectionStatus, selectedAchievement,
                    lastVerificationResult, walletAddress, verifying, panelAttempt,
                    fetches, fetchCount, anyFetchResolved, timers, interval,
                    verifyCount, propChanges >>

-----------------------------------------------------------------------------
(* BlockchainSelector: values and pure functions, lines 382-394 and 451-465 *)

\* chain ids the provider reports: a known one, the Monad id in the upper
\* case the component itself sends (line 491), and one the table lacks
ChainIds == {"0x1", "0x279F", "0x63"}

MonadChainId == "0x279F"

NoError == "<null>"
NoMethod == "-"

NullNetwork == [present |-> FALSE, chainId |-> "-", chainName |-> "-"]

\* errors a rejected request carries: err.code and whether err.message
\* contains "chain ID".  Code 0 stands for every other code and for none.
Errors ==
    {[code |-> c, mentionsChainId |-> FALSE] : c \in {4001, -32602, -32603, 0}}
        \cup {[code |-> 0, mentionsChainId |-> TRUE]}

\* `window.ethereum.request` evaluated without a provider: a TypeError, which
\* has no code and whose message does not mention a chain id
TypeErrorNoProvider == [code |-> 0, mentionsChainId |-> FALSE]

\* String.prototype.toLowerCase on the chain ids of the model
ToLowerCase(chainId) == IF chainId = "0x279F" THEN "0x279f" ELSE chainId

\* parseInt(chainId, 16) on the chain ids of the model
ParseIntHex(chainId) ==
    CASE chainId = "0x1" -> 1
      [] chainId = "0x279F" -> 10143
      [] chainId = "0x63" -> 99

\* lines 453-462
networkNames ==
    [k \in {"0x1", "0x5", "0xaa36a7", "0x89", "0x13881", "0xa", "0xa4b1", "0x279f"} |->
        CASE k = "0x1" -> "Ethereum Mainnet"
          [] k = "0x5" -> "Goerli Testnet"
          [] k = "0xaa36a7" -> "Sepolia Testnet"
          [] k = "0x89" -> "Polygon Mainnet"
          [] k = "0x13881" -> "Mumbai Testnet"
          [] k = "0xa" -> "Optimism"
          [] k = "0xa4b1" -> "Arbitrum One"
          [] k = "0x279f" -> "Monad Testnet"]

\* lines 451-465
getNetworkName(chainId) ==
    IF ToLowerCase(chainId) \in DOMAIN networkNames
    THEN networkNames[ToLowerCase(chainId)]
    ELSE "Chain " \o ToString(ParseIntHex(chainId))

\* lines 410-413: the NetworkInfo set by updateCurrentNetwork
NetworkInfo(chainId) ==
    [present |-> TRUE, chainId |-> chainId, chainName |-> getNetworkName(chainId)]

\* lines 546-551: the catch of handleSwitchNetwork
SwitchErrorMessage(err) ==
    IF err.code = 4001 THEN "Network switch rejected" ELSE "Failed to switch network"

\* lines 512-526: the catch of handleAddMonadTestnet
AddErrorMessage(err) ==
    LET errorMessage ==
            IF err.code = 4001 THEN "User rejected the request"
            ELSE IF err.code = -32602 THEN "Invalid parameters"
            ELSE IF err.code = -32603 THEN "Internal error - check RPC URL"
            ELSE IF err.mentionsChainId THEN "Invalid chain ID"
            ELSE "Failed to add network"
    IN  errorMessage \o ". Please check the network details and try again."

\* an inner catch that reports the failed switch as the outer catch would
ErrorAfterFailedSwitchReported(err) == AddErrorMessage(err)

\* lines 504-511: the inner catch of handleAddMonadTestnet only logs a
\* warning; `error` stays as it is
ErrorAfterFailedSwitch(err) == error

\* a setState call of the selector: dropped once the selector has unmounted
SetSelectorState(current, value) == IF selectorMounted THEN value ELSE current

NetEvent(kind, op, method, code, issued, chainId, onChangeCalls) ==
    [kind |-> kind, op |-> op, method |-> method, code |-> code, issued |-> issued,
     chainId |-> chainId, onChangeCalls |-> onChangeCalls, live |-> selectorMounted]

\* a handler suspended at `await window.ethereum.request({method: pc, ...})`
Op(id, kind, pc, chainId, run) ==
    [id |-> id, kind |-> kind, pc |-> pc, chainId |-> chainId, run |-> run]

-----------------------------------------------------------------------------
(* BlockchainSelector: the init effect and the subscription, lines 397-449 *)

\* lines 397-401 and 422-426, 441: the state after the first render and its
\* effect.  Without a provider the effect sets the error and returns; with one,
\* init has set isLoading and is suspended at eth_requestAccounts.
SelectorInit(provider) ==
    /\ selectorMounted = TRUE
    /\ hasProvider = provider
    /\ currentNetwork = NullNetwork
    /\ isLoading = provider
    /\ error = (IF provider THEN NoError ELSE "MetaMask not detected")
    /\ ops = (IF provider THEN {Op(0, "init", "eth_requestAccounts", "-", 1)} ELSE {})
    /\ opCount = 0
    /\ effectRun = 1
    /\ listeners = {}
    /\ netEvent = [kind |-> "mount", op |-> "init", method |-> NoMethod, code |-> 0,
                   issued |-> (IF provider THEN "eth_requestAccounts" ELSE NoMethod),
                   chainId |-> "-", onChangeCalls |-> 0, live |-> TRUE]

\* lines 444-448: the cleanup of effect run `run` removes that run's
\* handleChainChanged; a run that found no provider returned no cleanup
RemoveListener(run) == IF hasProvider THEN listeners \ {run} ELSE listeners

\* lines 397-449: onChange changed identity, so React runs the previous run's
\* cleanup and then the effect again
SelectorEffectRerun ==
    /\ selectorMounted
    /\ opCount < MaxNetOps
    /\ opCount' = opCount + 1
    /\ effectRun' = effectRun + 1
    /\ listeners' = RemoveListener(effectRun)
    /\ IF hasProvider
       THEN /\ isLoading' = TRUE
            /\ ops' = ops \cup {Op(0, "init", "eth_requestAccounts", "-", effectRun + 1)}
            /\ netEvent' = NetEvent("effectRerun", "init", NoMethod, 0,
                                    "eth_requestAccounts", "-", 0)
            /\ UNCHANGED error
       ELSE /\ error' = "MetaMask not detected"
            /\ netEvent' = NetEvent("effectRerun", "init", NoMethod, 0, NoMethod, "-", 0)
            /\ UNCHANGED << isLoading, ops >>
    /\ UNCHANGED << selectorMounted, hasProvider, currentNetwork >>
    /\ UNCHANGED panelVars

\* lines 426-429: eth_requestAccounts resolves and init requests eth_chainId
InitAccountsResolve(op) ==
    /\ op \in ops /\ op.kind = "init" /\ op.pc = "eth_requestAccounts"
    /\ ops' = (ops \ {op}) \cup {[op EXCEPT !.pc = "eth_chainId"]}
    /\ netEvent' = NetEvent("requestResolved", "init", op.pc, 0, "eth_chainId", "-", 0)
    /\ UNCHANGED << selectorMounted, hasProvider, currentNetwork, isLoading, error,
                    opCount, effectRun, listeners >>
    /\ UNCHANGED panelVars

\* lines 429-433 and 436-438, with updateCurrentNetwork (lines 407-415):
\* eth_chainId resolves, the network is recorded, onChange is called, the
\* error is cleared, handleChainChanged is registered and isLoading is reset.
\* Nothing here asks whether the effect run has been cleaned up meanwhile.
InitChainIdResolve(op, chainId) ==
    /\ op \in ops /\ op.kind = "init" /\ op.pc = "eth_chainId"
    /\ ops' = ops \ {op}
    /\ currentNetwork' = SetSelectorState(currentNetwork, NetworkInfo(chainId))
    /\ error' = SetSelectorState(error, NoError)
    /\ listeners' = listeners \cup {op.run}
    /\ isLoading' = SetSelectorState(isLoading, FALSE)
    /\ netEvent' = NetEvent("requestResolved", "init", op.pc, 0, NoMethod, chainId, 1)
    /\ UNCHANGED << selectorMounted, hasProvider, opCount, effectRun >>
    /\ UNCHANGED panelVars

\* lines 434-438: either request of init rejects; the catch does not look
\* at the error
InitReject(op) ==
    /\ op \in ops /\ op.kind = "init"
    /\ ops' = ops \ {op}
    /\ error' = SetSelectorState(error, "Failed to connect to MetaMask")
    /\ isLoading' = SetSelectorState(isLoading, FALSE)
    /\ netEvent' = NetEvent("requestRejected", "init", op.pc, 0, NoMethod, "-", 0)
    /\ UNCHANGED << selectorMounted, hasProvider, currentNetwork, opCount, effectRun, listeners >>
    /\ UNCHANGED panelVars

\* lines 403-415: the provider emits chainChanged and every registered
\* handleChainChanged runs updateCurrentNetwork
handleChainChanged(chainId) ==
    /\ listeners # {}
    /\ currentNetwork' = SetSelectorState(currentNetwork, NetworkInfo(chainId))
    /\ error' = SetSelectorState(error, NoError)
    /\ netEvent' = NetEvent("chainChanged", "-", NoMethod, 0, NoMethod, chainId,
                            Cardinality(listeners))
    /\ UNCHANGED << selectorMounted, hasProvider, isLoading, ops, opCount, effectRun, listeners >>
    /\ UNCHANGED panelVars

\* lines 444-448: the selector unmounts and React runs the effect's cleanup
SelectorUnmount ==
    /\ selectorMounted
    /\ selectorMounted' = FALSE
    /\ listeners' = RemoveListener(effectRun)
    /\ netEvent' = NetEvent("unmount", "-", NoMethod, 0, NoMethod, "-", 0)
    /\ UNCHANGED << hasProvider, currentNetwork, isLoading, error, ops, opCount,
                    effectRun >>
    /\ UNCHANGED panelVars

-----------------------------------------------------------------------------
(* BlockchainSelector: the two buttons, lines 467-556 and 564-594 *)

\* lines 532-540 and 564-567: the network button, disabled while isLoading.
\* The closure holds the currentNetwork of the render it was created in.
\* Without a provider `window.ethereum.request` throws inside the try, so the
\* catch and the finally run before the click handler returns.
SwitchClick ==
    /\ selectorMounted
    /\ ~isLoading
    /\ IF hasProvider
       THEN /\ opCount < MaxNetOps
            /\ opCount' = opCount + 1
            /\ isLoading' = TRUE
            /\ error' = NoError
            /\ ops' = ops \cup {Op(opCount + 1, "switch", "wallet_requestPermissions",
                                   IF currentNetwork.present
                                   THEN currentNetwork.chainId ELSE "0x1", effectRun)}
            /\ netEvent' = NetEvent("click", "switch", NoMethod, 0,
                                    "wallet_requestPermissions", "-", 0)
       ELSE /\ error' = SwitchErrorMessage(TypeErrorNoProvider)
            /\ isLoading' = FALSE
            /\ netEvent' = NetEvent("clickFailed", "switch", NoMethod, 0, NoMethod, "-", 0)
            /\ UNCHANGED << ops, opCount >>
    /\ UNCHANGED << selectorMounted, hasProvider, currentNetwork, effectRun, listeners >>
    /\ UNCHANGED panelVars

\* lines 536-545: wallet_requestPermissions resolves and the handler requests
\* wallet_switchEthereumChain for the chain its closure holds
SwitchPermissionsResolve(op) ==
    /\ op \in ops /\ op.kind = "switch" /\ op.pc = "wallet_requestPermissions"
    /\ ops' = (ops \ {op}) \cup {[op EXCEPT !.pc = "wallet_switchEthereumChain"]}
    /\ netEvent' = NetEvent("requestResolved", "switch", op.pc, 0,
                            "wallet_switchEthereumChain", op.chainId, 0)
    /\ UNCHANGED << selectorMounted, hasProvider, currentNetwork, isLoading, error,
                    opCount, effectRun, listeners >>
    /\ UNCHANGED panelVars

\* lines 542-545 and 553-555: wallet_switchEthereumChain resolves
SwitchResolve(op) ==
    /\ op \in ops /\ op.kind = "switch" /\ op.pc = "wallet_switchEthereumChain"
    /\ ops' = ops \ {op}
    /\ isLoading' = SetSelectorState(isLoading, FALSE)
    /\ netEvent' = NetEvent("requestResolved", "switch", op.pc, 0, NoMethod, op.chainId, 0)
    /\ UNCHANGED << selectorMounted, hasProvider, currentNetwork, error, opCount,
                    effectRun, listeners >>
    /\ UNCHANGED panelVars

\* lines 546-555: either request of handleSwitchNetwork rejects
SwitchReject(op, err) ==
    /\ op \in ops /\ op.kind = "switch"
    /\ ops' = ops \ {op}
    /\ error' = SetSelectorState(error, SwitchErrorMessage(err))
    /\ isLoading' = SetSelectorState(isLoading, FALSE)
    /\ netEvent' = NetEvent("requestRejected", "switch", op.pc, err.code, NoMethod,
                            op.chainId, 0)
    /\ UNCHANGED << selectorMounted, hasProvider, currentNetwork, opCount, effectRun, listeners >>
    /\ UNCHANGED panelVars

\* lines 467-501 and 587-594: the add button, which nothing disables.
\* Declined: lines 468-469 have already run when window.confirm returns, then
\* lines 483 and 528 reset isLoading.  Confirmed: the handler requests
\* wallet_addEthereumChain; without a provider that expression throws inside
\* the try and the catch and the finally run at once.
AddClick(confirmed) ==
    /\ selectorMounted
    /\ error' = (IF confirmed /\ ~hasProvider
                 THEN AddErrorMessage(TypeErrorNoProvider) ELSE NoError)
    /\ IF confirmed /\ hasProvider
       THEN /\ opCount < MaxNetOps
            /\ opCount' = opCount + 1
            /\ isLoading' = TRUE
            /\ ops' = ops \cup {Op(opCount + 1, "add", "wallet_addEthereumChain",
                                   MonadChainId, effectRun)}
            /\ netEvent' = NetEvent("click", "add", NoMethod, 0,
                                    "wallet_addEthereumChain", MonadChainId, 0)
       ELSE /\ isLoading' = FALSE
            /\ netEvent' = NetEvent(IF confirmed THEN "clickFailed" ELSE "addDeclined",
                                    "add", NoMethod, 0, NoMethod, "-", 0)
            /\ UNCHANGED << ops, opCount >>
    /\ UNCHANGED << selectorMounted, hasProvider, currentNetwork, effectRun, listeners >>
    /\ UNCHANGED panelVars

\* lines 488-508: wallet_addEthereumChain resolves and the handler requests
\* wallet_switchEthereumChain for the chain it has added
AddResolve(op) ==
    /\ op \in ops /\ op.kind = "add" /\ op.pc = "wallet_addEthereumChain"
    /\ ops' = (ops \ {op}) \cup {[op EXCEPT !.pc = "wallet_switchEthereumChain"]}
    /\ netEvent' = NetEvent("requestResolved", "add", op.pc, 0,
                            "wallet_switchEthereumChain", MonadChainId, 0)
    /\ UNCHANGED << selectorMounted, hasProvider, currentNetwork, isLoading, error,
                    opCount, effectRun, listeners >>
    /\ UNCHANGED panelVars

\* lines 512-529: wallet_addEthereumChain rejects
AddReject(op, err) ==
    /\ op \in ops /\ op.kind = "add" /\ op.pc = "wallet_addEthereumChain"
    /\ ops' = ops \ {op}
    /\ error' = SetSelectorState(error, AddErrorMessage(err))
    /\ isLoading' = SetSelectorState(isLoading, FALSE)
    /\ netEvent' = NetEvent("requestRejected", "add", op.pc, err.code, NoMethod,
                            op.chainId, 0)
    /\ UNCHANGED << selectorMounted, hasProvider, currentNetwork, opCount, effectRun, listeners >>
    /\ UNCHANGED panelVars

\* lines 504-508 and 527-529: the switch after the add resolves
AddSwitchResolve(op) ==
    /\ op \in ops /\ op.kind = "add" /\ op.pc = "wallet_switchEthereumChain"
    /\ ops' = ops \ {op}
    /\ isLoading' = SetSelectorState(isLoading, FALSE)
    /\ netEvent' = NetEvent("requestResolved", "add", op.pc, 0, NoMethod, op.chainId, 0)
    /\ UNCHANGED << selectorMounted, hasProvider, currentNetwork, error, opCount,
                    effectRun, listeners >>
    /\ UNCHANGED panelVars

\* lines 509-511 and 527-529: the switch after the add rejects
AddSwitchReject(op, err) ==
    /\ op \in ops /\ op.kind = "add" /\ op.pc = "wallet_switchEthereumChain"
    /\ ops' = ops \ {op}
    /\ error' = SetSelectorState(error, ErrorAfterFailedSwitch(err))
    /\ isLoading' = SetSelectorState(isLoading, FALSE)
    /\ netEvent' = NetEvent("requestRejected", "add", op.pc, err.code, NoMethod,
                            op.chainId, 0)
    /\ UNCHANGED << selectorMounted, hasProvider, currentNetwork, opCount, effectRun, listeners >>
    /\ UNCHANGED panelVars

-----------------------------------------------------------------------------
(* The specification *)

\* the outcomes of one verifyAchievement call, with the thrown error's message
Outcomes ==
    {<< "true", NoMessage >>, << "false", NoMessage >>}
        \cup {<< "throw", m >> : m \in ErrorMessages}

\* the panel after its first render and its effect (lines 36-61): the first
\* fetch is in flight and the interval is set
PanelInit ==
    /\ mounted = TRUE
    /\ connectionStatus = "connecting"
    /\ selectedAchievement = NullAchievement
    /\ lastVerificationResult = NullResult
    /\ achievements \in [Ids -> {[completed |-> c, verificationStatus |-> "pending",
                                   timestamp |-> FALSE] : c \in BOOLEAN}]
    /\ walletAddress \in Wallets
    /\ verifying = FALSE
    /\ panelAttempt = NoAttempt
    /\ cardVerifying = [id \in Ids |-> FALSE]
    /\ cardAttempt = [id \in Ids |-> NoAttempt]
    /\ fetches = {[id |-> 1, origin |-> "effect", from |-> "connecting", seen |-> TRUE]}
    /\ fetchCount = 1
    /\ anyFetchResolved = FALSE
    /\ timers = {1}
    /\ interval = 1
    /\ verifyCount = 0
    /\ propChanges = 0
    /\ notifications = << >>
    /\ latest = NoLatest
    /\ lastEvent = [kind |-> "mount", id |-> NoId, origin |-> "effect", outcome |-> "-",
                    message |-> NoMessage, from |-> "connecting", seen |-> TRUE,
                    live |-> TRUE]

\* the state after the first render and the effects of the components, in a
\* browser with a wallet provider
Init == PanelInit /\ SelectorInit(TRUE)

\* the connection lifecycle on its own: every way a fetch is started or
\* settles, and teardown.  The verify flow writes none of these variables.
NextConnection ==
    \/ TimerTick /\ UNCHANGED selectorVars
    \/ ManualRefresh /\ UNCHANGED selectorVars
    \/ EffectRerun /\ UNCHANGED selectorVars
    \/ \E f \in fetches, ok \in BOOLEAN : FetchResolve(f, ok) /\ UNCHANGED selectorVars
    \/ Unmount /\ UNCHANGED selectorVars

SpecConnection == Init /\ [][NextConnection]_vars

\* the connection lifecycle with the browser's timer guarantee: an interval
\* that stays set keeps firing (line 59, setInterval every 30000 ms)
SpecConnectionFair ==
    SpecConnection /\ WF_vars(TimerTick /\ UNCHANGED selectorVars)

\* the verify flow of the panel and the cards, with the props changing, the
\* mount-time fetch settling either way, and teardown
NextVerify ==
    \/ \E f \in fetches, ok \in BOOLEAN : FetchResolve(f, ok) /\ UNCHANGED selectorVars
    \/ Unmount /\ UNCHANGED selectorVars
    \/ \E id \in Ids : RegistryUpdate(id) /\ UNCHANGED selectorVars
    \/ \E w \in Wallets : WalletChange(w) /\ UNCHANGED selectorVars
    \/ \E id \in Ids : SelectAchievement(id) /\ UNCHANGED selectorVars
    \/ VerifyButtonClick /\ UNCHANGED selectorVars
    \/ TryAgainClick /\ UNCHANGED selectorVars
    \/ \E o \in Outcomes : PanelVerifyResolve(o[1], o[2]) /\ UNCHANGED selectorVars
    \/ \E id \in Ids : CardVerifyClick(id) /\ UNCHANGED selectorVars
    \/ \E id \in Ids, o \in Outcomes :
           CardVerifyResolve(id, o[1], o[2]) /\ UNCHANGED selectorVars

SpecVerify == Init /\ [][NextVerify]_vars

\* the panel's verify flow while the connection keeps being polled: every
\* achievement completed, a wallet connected, and the interval's fetches
\* settling either way between the clicks
InitRetry ==
    /\ Init
    /\ walletAddress = "0xABC"
    /\ \A id \in Ids : achievements[id].completed

NextRetry ==
    \/ TimerTick /\ UNCHANGED selectorVars
    \/ \E f \in fetches, ok \in BOOLEAN : FetchResolve(f, ok) /\ UNCHANGED selectorVars
    \/ \E id \in Ids : SelectAchievement(id) /\ UNCHANGED selectorVars
    \/ VerifyButtonClick /\ UNCHANGED selectorVars
    \/ TryAgainClick /\ UNCHANGED selectorVars
    \/ \E o \in Outcomes : PanelVerifyResolve(o[1], o[2]) /\ UNCHANGED selectorVars
    \/ Unmount /\ UNCHANGED selectorVars

SpecRetry == InitRetry /\ [][NextRetry]_vars

\* the network selector on its own, with or without a wallet provider, next
\* to a panel that shows no achievement and takes no step
InitSelector ==
    /\ PanelInit
    /\ walletAddress = NullWallet
    /\ \A id \in Ids : ~achievements[id].completed
    /\ \E provider \in BOOLEAN : SelectorInit(provider)

NextSelector ==
    \/ SelectorEffectRerun
    \/ \E op \in ops : InitAccountsResolve(op)
    \/ \E op \in ops, chainId \in ChainIds : InitChainIdResolve(op, chainId)
    \/ \E op \in ops : InitReject(op)
    \/ \E chainId \in ChainIds : handleChainChanged(chainId)
    \/ SelectorUnmount
    \/ SwitchClick
    \/ \E op \in ops : SwitchPermissionsResolve(op)
    \/ \E op \in ops : SwitchResolve(op)
    \/ \E op \in ops, err \in Errors : SwitchReject(op, err)
    \/ \E confirmed \in BOOLEAN : AddClick(confirmed)
    \/ \E op \in ops : AddResolve(op)
    \/ \E op \in ops, err \in Errors : AddReject(op, err)
    \/ \E op \in ops : AddSwitchResolve(op)
    \/ \E op \in ops, err \in Errors : AddSwitchReject(op, err)

SpecSelector == InitSelector /\ [][NextSelector]_vars

-----------------------------------------------------------------------------
(* Claims about the connection lifecycle, checked under SpecConnection *)

\* C1: connectionStatus is 'connecting' until the first fetch settles; right
\* after a fetch of the mounted panel resolves it is 'connected', and right
\* after one rejects it is 'disconnected', whoever started the fetch.
C1_StatusFollowsFetchOutcome ==
    /\ ~anyFetchResolved => connectionStatus = "connecting"
    /\ lastEvent.kind = "fetchResolved" /\ lastEvent.live /\ lastEvent.outcome = "ok"
           => connectionStatus = "connected"
    /\ lastEvent.kind = "fetchResolved" /\ lastEvent.live /\ lastEvent.outcome = "fail"
           => connectionStatus = "disconnected"

\* a periodic fetch started while connected has just rejected
C1_Witness ==
    /\ lastEvent.kind = "fetchResolved"
    /\ lastEvent.live
    /\ lastEvent.origin = "timer"
    /\ lastEvent.from = "connected"
    /\ lastEvent.outcome = "fail"
    /\ connectionStatus = "disconnected"

\* C9 as stated: every fetch started from 'connected' or 'disconnected', by
\* the Refresh button or by the timer, has seen connectionStatus 'connecting'
\* by the time it settles.
C9_EveryFetchReentersConnecting ==
    lastEvent.kind = "fetchResolved" /\ lastEvent.live
        /\ lastEvent.from \in {"connected", "disconnected"}
        /\ lastEvent.origin \in {"manual", "timer"}
    => lastEvent.seen

\* C9 amended: a fetch started by the Refresh button puts connectionStatus at
\* 'connecting' as it starts; a fetch started by the timer (or by a re-run of
\* the effect) leaves connectionStatus as it was.
C9_OnlyRefreshReentersConnecting ==
    lastEvent.kind = "fetchStart" /\ lastEvent.live =>
        IF lastEvent.origin = "manual"
        THEN connectionStatus = "connecting"
        ELSE connectionStatus = lastEvent.from

\* the timer has just started a fetch while connected, and the status stays
C9_Witness ==
    /\ lastEvent.kind = "fetchStart"
    /\ lastEvent.origin = "timer"
    /\ lastEvent.from = "connected"
    /\ connectionStatus = "connected"

\* C10: at most one interval is active at any time, none is active once the
\* panel has unmounted, and the timer starts a fetch only while the panel is
\* mounted.
C10_TimerReleasedOnTeardown ==
    /\ Cardinality(timers) <= 1
    /\ ~mounted => timers = {}
    /\ lastEvent.kind = "fetchStart" /\ lastEvent.origin = "timer" => lastEvent.live

\* the effect was re-run, then the panel unmounted before any fetch settled
C10_Witness ==
    /\ lastEvent.kind = "unmount"
    /\ ~mounted
    /\ ~anyFetchResolved
    /\ interval > 1
    /\ fetches # {}
    /\ timers = {}

-----------------------------------------------------------------------------
(* Claims about the verify flow, checked under SpecVerify *)

\* the handler or continuation that has just run, seen from the step itself
JustResolved(origin, outcomes) ==
    /\ lastEvent'.kind = "verifyResolved"
    /\ lastEvent'.origin = origin
    /\ lastEvent'.outcome \in outcomes

\* C2 as stated: when the panel's verify(A) was still pending as verify(B) was
\* started for another achievement, then once both have settled the panel's
\* lastVerificationResult is the one of B, the newer attempt.
C2_StaleResolutionDiscarded ==
    lastEvent.kind = "verifyResolved" /\ lastEvent.live /\ mounted
        /\ ~VerifyInFlight /\ latest.supersedes \notin {NoId, latest.id}
    => /\ lastVerificationResult.present
       /\ lastVerificationResult.success = (latest.outcome = "true")
       /\ lastVerificationResult.achievementId \in {latest.id, NoId}

\* C3 as stated: right after a verify attempt of the panel settles, whatever
\* its outcome, the last call of onVerificationComplete is (id, outcome = true).
C3_CallbackAfterEveryAttempt ==
    lastEvent.kind = "verifyResolved" /\ lastEvent.origin = "panel"
    => /\ Len(notifications) > 0
       /\ notifications[Len(notifications)]
              = << lastEvent.id, lastEvent.outcome = "true" >>

\* C4 as stated: verifyAchievement is never called for an achievement whose
\* completed flag is false in the registry at the time of the call.
C4_NoVerifyOfUncompleted ==
    lastEvent.kind = "verifyStart" => achievements[lastEvent.id].completed

\* C5: no achievement is ever 'rejected', and the step in which a verify
\* attempt resolves false or throws leaves every achievement as it was and
\* makes no onVerificationComplete(id, true) call.
C5_FailureLeavesPending ==
    /\ [](\A id \in Ids : achievements[id].verificationStatus # "rejected")
    /\ [][(JustResolved("panel", {"false", "throw"})
            \/ JustResolved("card", {"false", "throw"}))
          => /\ achievements' = achievements
             /\ \/ notifications' = notifications
                \/ notifications' = Append(notifications, << lastEvent'.id, FALSE >>)]_vars

\* the panel's attempt for a pending achievement has just resolved false
C5_Witness ==
    /\ lastEvent.kind = "verifyResolved"
    /\ lastEvent.origin = "panel"
    /\ lastEvent.outcome = "false"
    /\ achievements[lastEvent.id].verificationStatus = "pending"
    /\ notifications = << >>

\* C6: the step in which the panel's verify attempt for X resolves true calls
\* onVerificationComplete exactly once, with (X.id, true), records (while the
\* panel is mounted) a result with success = true and achievementId = X.id,
\* and leaves X 'verified' with its timestamp set.
C6_SuccessIsRecorded ==
    [][JustResolved("panel", {"true"})
       => /\ notifications' = Append(notifications, << lastEvent'.id, TRUE >>)
          /\ mounted => /\ lastVerificationResult'.present
                        /\ lastVerificationResult'.success
                        /\ lastVerificationResult'.achievementId = lastEvent'.id
          /\ achievements'[lastEvent'.id].verificationStatus = "verified"
          /\ achievements'[lastEvent'.id].timestamp]_vars

\* the panel's attempt for a1, started with wallet 0xABC, has just resolved true
C6_Witness ==
    /\ lastEvent.kind = "verifyResolved"
    /\ lastEvent.origin = "panel"
    /\ lastEvent.outcome = "true"
    /\ lastEvent.id = "a1"
    /\ walletAddress = "0xABC"
    /\ mounted
    /\ lastVerificationResult.success
    /\ lastVerificationResult.achievementId = "a1"
    /\ achievements["a1"].verificationStatus = "verified"
    /\ achievements["a1"].timestamp
    /\ notifications = << << "a1", TRUE >> >>

\* C7 as stated: right after the panel's verify resolves false the recorded
\* message is the specification's text (written there with a dash, here "--").
C7_SpecMessageOnFalse ==
    lastEvent.kind = "verifyResolved" /\ lastEvent.origin = "panel"
        /\ lastEvent.live /\ lastEvent.outcome = "false"
    => /\ ~lastVerificationResult.success
       /\ lastVerificationResult.message
              = "could not verify -- ensure content is visible"

\* C7 amended: right after the panel's verify resolves false the recorded
\* result has success = false and the message of line 101; right after it
\* throws an error with a non-empty message, the message is the error's.
C7_FailureMessages ==
    /\ lastEvent.kind = "verifyResolved" /\ lastEvent.origin = "panel"
           /\ lastEvent.live /\ lastEvent.outcome = "false"
       => /\ lastVerificationResult.present
          /\ ~lastVerificationResult.success
          /\ lastVerificationResult.message =
                 "Could not verify achievement. Make sure the content is visible on your screen."
    /\ lastEvent.kind = "verifyResolved" /\ lastEvent.origin = "panel"
           /\ lastEvent.live /\ lastEvent.outcome = "throw" /\ lastEvent.message # ""
       => /\ lastVerificationResult.present
          /\ ~lastVerificationResult.success
          /\ lastVerificationResult.message = lastEvent.message

\* the panel's verify has just thrown an error that carries a message
C7_Witness ==
    /\ lastEvent.kind = "verifyResolved"
    /\ lastEvent.origin = "panel"
    /\ lastEvent.live
    /\ lastEvent.outcome = "throw"
    /\ lastEvent.message = "Screenpipe timed out"
    /\ lastVerificationResult.message = "Screenpipe timed out"

\* C8: verifyAchievement is only ever called with a non-empty wallet address,
\* and a verifySelectedAchievement call stopped by its guard changes nothing:
\* no call is made, and the result, the achievements and the callback's calls
\* stay as they were.
C8_NoVerifyWithoutWallet ==
    /\ [](lastEvent.kind = "verifyStart" => Truthy(walletAddress))
    /\ [](\A id \in Ids : cardAttempt[id].present => Truthy(cardAttempt[id].wallet))
    /\ [](panelAttempt.present => Truthy(panelAttempt.wallet))
    /\ [][lastEvent'.kind = "verifyGuardReturn"
          => UNCHANGED << lastVerificationResult, achievements, verifyCount,
                          panelAttempt, cardAttempt, verifying, notifications >>]_vars

\* Try Again was clicked while the wallet address was null or empty, with a
\* failed result on display, and the guard returned
C8_Witness ==
    /\ lastEvent.kind = "verifyGuardReturn"
    /\ lastEvent.from = "tryAgain"
    /\ ~Truthy(walletAddress)
    /\ selectedAchievement.present
    /\ lastVerificationResult.present
    /\ ~lastVerificationResult.success
    /\ verifyCount = 1


\* C11 as stated: at most one verifyAchievement call is pending at any time,
\* over the panel and all the cards.
C11_SingleFlight ==
    Cardinality({id \in Ids : cardAttempt[id].present})
        + (IF panelAttempt.present THEN 1 ELSE 0) <= 1

\* C18: when fetches race, the last write wins: once no fetch of the mounted
\* panel is in flight, connectionStatus is the outcome of the fetch that
\* settled last, whatever the order in which the fetches were started.
C18_LastWriteWins ==
    mounted /\ fetches = {}
        => /\ lastEvent.kind = "fetchResolved"
           /\ connectionStatus =
                  (IF lastEvent.outcome = "ok" THEN "connected" ELSE "disconnected")

\* a periodic fetch started from 'connected', overtaken by a manual refresh
\* ('connecting' seen after its start) that settled first, rejects last
C18_Witness ==
    /\ mounted /\ fetches = {}
    /\ lastEvent.kind = "fetchResolved" /\ lastEvent.origin = "timer"
    /\ lastEvent.from = "connected" /\ lastEvent.seen
    /\ lastEvent.outcome = "fail"
    /\ connectionStatus = "disconnected"

\* C20: while the panel is mounted, 'connecting' implies a fetch in flight;
\* with no fetch in flight the status is 'connected' or 'disconnected'.
C20_ConnectingImpliesFetchInFlight ==
    mounted =>
        /\ connectionStatus = "connecting" => fetches # {}
        /\ fetches = {} => connectionStatus \in {"connected", "disconnected"}

\* the Refresh button has just written 'connecting' while a periodic fetch,
\* started from 'disconnected', is still in flight next to the manual one
C20_Witness ==
    /\ mounted /\ connectionStatus = "connecting"
    /\ lastEvent.kind = "fetchStart" /\ lastEvent.origin = "manual"
    /\ \E f \in fetches : f.origin = "timer" /\ f.from = "disconnected"
    /\ \E f \in fetches : f.origin = "manual"

\* C19 as stated: once the panel has unmounted, a fetch or a verify call of the
\* panel that settles afterwards writes neither connectionStatus nor
\* lastVerificationResult and does not invoke onVerificationComplete.
C19_NothingAfterTeardown ==
    [][ ( /\ ~mounted
          /\ \/ lastEvent'.kind = "fetchResolved"
             \/ lastEvent'.kind = "verifyResolved" /\ lastEvent'.origin = "panel" )
        => /\ connectionStatus' = connectionStatus
           /\ lastVerificationResult' = lastVerificationResult
           /\ notifications' = notifications ]_vars

\* C12: 'disconnected' is not terminal.  While the panel stays mounted, from
\* every 'disconnected' state another fetch is eventually started without any
\* user action (the interval alone is assumed to keep firing), and a fetch
\* started from 'disconnected' that succeeds makes the status 'connected'.
C12_DisconnectedIsRetried ==
    /\ \A n \in 1..(MaxFetches - 1) :
           (mounted /\ connectionStatus = "disconnected" /\ fetchCount = n)
               ~> (~mounted \/ fetchCount > n)
    /\ [](lastEvent.kind = "fetchResolved" /\ lastEvent.live
              /\ lastEvent.from = "disconnected" /\ lastEvent.outcome = "ok"
          => connectionStatus = "connected")

\* a fetch started by the interval while 'disconnected' has just succeeded
C12_Witness ==
    /\ mounted
    /\ lastEvent.kind = "fetchResolved" /\ lastEvent.origin = "timer"
    /\ lastEvent.from = "disconnected" /\ ~lastEvent.seen
    /\ lastEvent.outcome = "ok"
    /\ connectionStatus = "connected"

-----------------------------------------------------------------------------
(* Claims about the network selector, checked under SpecSelector *)

\* C13 as stated: when the provider rejects the switch-chain request of the
\* switch handler with code 4001 or with code -32602, the error shown is a
\* message of its own, not the generic one used for unknown codes.
C13_SwitchErrorByCode ==
    /\ netEvent.kind = "requestRejected" /\ netEvent.op = "switch"
    /\ netEvent.method = "wallet_switchEthereumChain" /\ netEvent.live
    /\ netEvent.code \in {4001, -32602}
    => error # SwitchErrorMessage([code |-> 0, mentionsChainId |-> FALSE])

\* C14 as stated: a declined add-chain issues no provider request and leaves
\* currentNetwork, error and isLoading as they were, whatever they were.
C14_DeclinedAddChangesNothing ==
    [][ netEvent'.kind = "addDeclined"
        => /\ netEvent'.issued = NoMethod
           /\ ops' = ops
           /\ currentNetwork' = currentNetwork
           /\ error' = error
           /\ isLoading' = isLoading ]_vars

\* C15: once the add-chain request of a confirmed add has resolved, the
\* handler requests a switch to the added chain as its next step; when that
\* switch is rejected, with whatever code, the handler ends without writing
\* `error` and with isLoading false.
C15_SwitchAfterAddIsBestEffort ==
    [][ /\ ( netEvent'.kind = "requestResolved" /\ netEvent'.op = "add"
             /\ netEvent'.method = "wallet_addEthereumChain" )
           => /\ netEvent'.issued = "wallet_switchEthereumChain"
              /\ netEvent'.chainId = MonadChainId
              /\ Cardinality({op \in ops' : op.kind = "add"
                                 /\ op.pc = "wallet_switchEthereumChain"
                                 /\ op.chainId = MonadChainId})
                   = 1 + Cardinality({op \in ops : op.kind = "add"
                                         /\ op.pc = "wallet_switchEthereumChain"})
        /\ ( netEvent'.kind = "requestRejected" /\ netEvent'.op = "add"
             /\ netEvent'.method = "wallet_switchEthereumChain" )
           => /\ error' = error
              /\ netEvent'.live => ~isLoading'
              /\ netEvent'.issued = NoMethod ]_vars

\* the switch after a successful add has just been rejected with 'internal
\* error', and the mounted selector shows no error and is not loading
C15_Witness ==
    /\ netEvent.kind = "requestRejected" /\ netEvent.op = "add"
    /\ netEvent.method = "wallet_switchEthereumChain"
    /\ netEvent.code = -32603 /\ netEvent.live
    /\ error = NoError /\ ~isLoading

\* C16 as stated: once the selector has been torn down, no handleChainChanged
\* of it is registered with the provider.
C16_SubscriptionDetached ==
    ~selectorMounted => listeners = {}

\* C17 as stated: without a provider, init ends with "MetaMask not detected",
\* no request is made and nothing is subscribed, and every later switch or add
\* action ends with an error shown and isLoading false.
C17_NoProviderIsReported ==
    ~hasProvider =>
        /\ ops = {} /\ listeners = {} /\ netEvent.issued = NoMethod
        /\ netEvent.kind \in {"mount", "effectRerun"} => error = "MetaMask not detected"
        /\ netEvent.op \in {"switch", "add"} => error # NoError /\ ~isLoading

-----------------------------------------------------------------------------
(* Further claims about the verify flow and the selector *)

\* C22 as stated: whenever the panel displays a result (a result and a
\* selection are present) that carries an achievementId, that id is the id of
\* the selected achievement.
C22_ResultBelongsToSelection ==
    /\ mounted
    /\ lastVerificationResult.present /\ selectedAchievement.present
    /\ lastVerificationResult.achievementId # NoId
    => lastVerificationResult.achievementId = selectedAchievement.id

\* C23 as stated: no verify is started for an achievement that is already
\* 'verified', and onVerificationComplete(id, true) is called at most once
\* for each id.
C23_VerifiedNeverResubmitted ==
    /\ lastEvent.kind = "verifyStart"
           => achievements[lastEvent.id].verificationStatus # "verified"
    /\ \A id \in Ids :
           Cardinality({i \in DOMAIN notifications : notifications[i] = << id, TRUE >>}) <= 1

\* C24 as stated: in the mounted selector isLoading is true exactly while some
\* handler (init, switch, add) is suspended at a provider request.
C24_LoadingWhileInFlight ==
    selectorMounted => (isLoading <=> ops # {})

\* C21 as stated: whichever control starts it, a verify call of the panel is
\* started only while connectionStatus is 'connected'.
C21_VerifyOnlyWhileConnected ==
    lastEvent.kind = "verifyStart" /\ lastEvent.origin = "panel"
        => connectionStatus = "connected"

=============================================================================
